---- MODULE Spec2Model ----
(***************************************************************************)
(* A model of the checkerboard calibration module: the shared chessboard   *)
(* utilities (utils/chessboard_utils.py), the CameraCalibration generic    *)
(* service (models/camera_calibration.py) and the Chessboard pose tracker  *)
(* (models/chessboard.py).                                                 *)
(*                                                                         *)
(* OpenCV, numpy and the camera are outside the repository.  What they     *)
(* return is an input of the model: a payload carries the picture its      *)
(* bytes encode (or none), a picture carries the corner grid visible in it *)
(* (or none), and each solver call succeeds or fails by choice.  Numbers   *)
(* are integers; float32 rounding is not modelled.                         *)
(***************************************************************************)
EXTENDS Integers, Sequences, FiniteSets, TLC

VARIABLES
    svc,         \* CameraCalibration: self.pattern_size, self.square_size
    trk,         \* Chessboard: self.camera, self.pattern_size, self.square_size
    op,          \* the request being served
    pc,          \* its position: "idle", "loop", "solve", "done"
    command,     \* do_command's argument
    loc,         \* the locals of _calibrate_camera_from_images; for get_poses,
                 \* the objp and corners it handed to solvePnP
    frame,       \* get_poses: what camera.get_images() returned, what solvePnP does
    calls,       \* calls made to the libraries by the request being served
    ret,         \* what the request returned or raised
    objp_calls,  \* generate_object_points calls made so far, with their results
    dec,         \* decode_base64_image: its argument and its outcome
    config,      \* the attributes of the configuration being applied
    inline_calls,\* object-point grids built inline by get_poses, with their results
    reordered,   \* a second run of the calibration loop, on the images reordered
    fs,          \* the watched directory: its pass directories and their files
    watcher,     \* CalibrationPassWatcher: _known_passes and the scan in progress
    reported,    \* the on_pass_complete calls made so far
    ctl,         \* the watcher's stop flag and threads, and the caller of start / stop
    marked       \* the last request to mark a pass complete, and its outcome

\* the variables of the utilities on their own and of the pass watcher
pureVars == <<objp_calls, dec, inline_calls, reordered>>
watchVars == <<fs, watcher, reported, ctl, marked>>

vars == <<svc, trk, op, pc, command, loc, frame, calls, ret, config, pureVars, watchVars>>

----------------------------------------------------------------------------
(* Bounds *)

MaxImages == 5      \* longest list of images in a calibrate_camera command
MaxCamImages == 2   \* most images a camera returns from get_images
MaxText == 4        \* longest payload text given to decode_base64_image
MaxCols == 4        \* largest pattern width given to generate_object_points
MaxRows == 4        \* largest pattern height given to generate_object_points
MaxSquare == 4      \* largest square size given to generate_object_points
MaxCalls == 2        \* object-point grids kept for comparison
MaxReorder == 3     \* longest list of images processed in two orders
MaxReports == 4     \* most on_pass_complete calls followed
MaxThreads == 3     \* most watch-loop threads start() makes

----------------------------------------------------------------------------
(* utils/chessboard_utils.py: generate_object_points *)

\* np.mgrid[0:n0, 0:n1]: shape (2, n0, n1), G[0][i][j] = i, G[1][i][j] = j
mgrid(n0, n1) ==
    [k \in 0..1 |-> [i \in 0..(n0 - 1) |-> [j \in 0..(n1 - 1) |->
        IF k = 0 THEN i ELSE j]]]

\* the grid with its last axis moved to the end but its first two not swapped
MoveAxis(G, n0, n1) ==
    [i \in 0..(n0 - 1) |-> [j \in 0..(n1 - 1) |-> [k \in 0..1 |-> G[k][i][j]]]]

\* ndarray.T of a 3-d array of shape (2, n0, n1): shape (n1, n0, 2), axes reversed
Transpose(G, n0, n1) ==
    [j \in 0..(n1 - 1) |-> [i \in 0..(n0 - 1) |-> [k \in 0..1 |-> G[k][i][j]]]]

\* reshape(-1, 2) of an array of shape (d0, d1, 2), C order: row a*d1 + b is A[a][b]
Reshape2(A, d0, d1) ==
    [n \in 1..(d0 * d1) |-> A[(n - 1) \div d1][(n - 1) % d1]]

\* a variant that adds square_size to X and Y instead of multiplying
ScaleShift(objp, square_size) ==
    [n \in DOMAIN objp |-> <<objp[n][1] + square_size, objp[n][2] + square_size, objp[n][3]>>]

\* objp *= square_size, every coordinate of every point
Scale(objp, square_size) ==
    [n \in DOMAIN objp |-> [k \in 1..3 |-> objp[n][k] * square_size]]

\* a variant without the .T: the row index varies fastest
ObjectPointsColumnMajor(pattern_size, square_size) ==
    LET n0 == pattern_size[1]
        n1 == pattern_size[2]
        zeros == [n \in 1..(n1 * n0) |-> <<0, 0, 0>>]
        grid == Reshape2(MoveAxis(mgrid(n0, n1), n0, n1), n0, n1)
        objp == [n \in DOMAIN zeros |-> <<grid[n][0], grid[n][1], zeros[n][3]>>]
    IN  Scale(objp, square_size)

\* np.zeros((n1 * n0, 3)); objp[:, :2] = np.mgrid[0:n0, 0:n1].T.reshape(-1, 2);
\* objp *= square_size
generate_object_points(pattern_size, square_size) ==
    LET n0 == pattern_size[1]
        n1 == pattern_size[2]
        zeros == [n \in 1..(n1 * n0) |-> <<0, 0, 0>>]
        grid == Reshape2(Transpose(mgrid(n0, n1), n0, n1), n1, n0)
        objp == [n \in DOMAIN zeros |-> <<grid[n][0], grid[n][1], zeros[n][3]>>]
    IN  Scale(objp, square_size)

----------------------------------------------------------------------------
(* utils/chessboard_utils.py: decode_base64_image *)

\* the characters of a payload text: two of the base64 alphabet, the pad,
\* one outside the alphabet, and the comma that ends a data-URI prefix
B64Alphabet == {"A", "B"}
Chars == B64Alphabet \cup {"=", "!", ","}

\* a picture: pixel width and height, the inner-corner grid visible in it
\* (<<>> when there is none) and the pixel position of the grid's first corner
NoPic == [w |-> 0, h |-> 0, board |-> <<>>, ox |-> 0, oy |-> 0]
PicA == [w |-> 8, h |-> 6, board |-> <<3, 2>>, ox |-> 1, oy |-> 1]
PicB == [w |-> 6, h |-> 4, board |-> <<3, 2>>, ox |-> 2, oy |-> 1]
PicC == [w |-> 5, h |-> 7, board |-> <<2, 3>>, ox |-> 1, oy |-> 2]

\* outcomes of a call that may return None, return an image, or raise
Raised(e) == [tag |-> "raise", exc |-> e, image |-> NoPic]
ReturnedNone == [tag |-> "none", exc |-> "", image |-> NoPic]
Returned(image) == [tag |-> "image", exc |-> "", image |-> image]

\* position of the first "," of s, 0 when there is none
RECURSIVE FirstComma(_, _)
FirstComma(s, i) ==
    IF i > Len(s) THEN 0 ELSE IF s[i] = "," THEN i ELSE FirstComma(s, i + 1)

\* base64_str.split(',', 1)[1] when ',' in base64_str
StripPrefix(s) ==
    LET i == FirstComma(s, 1) IN IF i = 0 THEN s ELSE SubSeq(s, i + 1, Len(s))

\* binascii.a2b_base64 as base64.b64decode calls it (validate=False):
\* characters outside the alphabet are skipped, a pad that completes the
\* quad ends the parse, and a quad left open at the end is an error
RECURSIVE a2b_base64(_, _, _, _)
a2b_base64(s, quad_pos, pads, nbytes) ==
    IF s = <<>> THEN [err |-> quad_pos # 0, nbytes |-> nbytes]
    ELSE IF Head(s) = "=" THEN
        IF quad_pos >= 2 /\ quad_pos + pads + 1 >= 4
        THEN [err |-> FALSE, nbytes |-> nbytes]
        ELSE a2b_base64(Tail(s), quad_pos,
                        IF quad_pos >= 2 THEN pads + 1 ELSE pads, nbytes)
    ELSE IF Head(s) \notin B64Alphabet THEN a2b_base64(Tail(s), quad_pos, pads, nbytes)
    ELSE a2b_base64(Tail(s), (quad_pos + 1) % 4, 0,
                    IF quad_pos = 0 THEN nbytes ELSE nbytes + 1)

b64decode(s) == a2b_base64(s, 0, 0, 0)

\* cv2.imdecode(nparr, cv2.IMREAD_COLOR): an empty buffer is an error, bytes
\* that are no picture give None, a picture gives a 3-channel array
imdecode(nbytes, pic) ==
    IF nbytes = 0 THEN Raised("cv2.error")
    ELSE IF pic = NoPic THEN ReturnedNone
    ELSE Returned(pic)

\* a payload: a string (its text and the picture its bytes encode) or a
\* value of another type
StrPayload(text, pic) == [isstr |-> TRUE, text |-> text, pic |-> pic]
NonStrPayload == [isstr |-> FALSE, text |-> <<>>, pic |-> NoPic]

decode_base64_image(base64_str) ==
    IF ~base64_str.isstr THEN Raised("TypeError")
    ELSE LET img_bytes == b64decode(StripPrefix(base64_str.text)) IN
         IF img_bytes.err THEN Raised("binascii.Error")
         ELSE imdecode(img_bytes.nbytes, base64_str.pic)

----------------------------------------------------------------------------
(* utils/chessboard_utils.py: detect_chessboard_corners *)

\* cv2.findChessboardCorners: found when the whole pattern_size grid is the
\* one visible in the image; the corners come row by row from the grid's
\* first corner
findChessboardCorners(image, pattern_size) ==
    IF image.board # <<>> /\ image.board = pattern_size
    THEN [found |-> TRUE,
          corners |-> [n \in 1..(image.board[1] * image.board[2]) |->
                        <<image.ox + ((n - 1) % image.board[1]),
                          image.oy + ((n - 1) \div image.board[1])>>]]
    ELSE [found |-> FALSE, corners |-> <<>>]

\* cv2.cornerSubPix: the same corners, in the same order, refined in place
cornerSubPix(image, corners) == corners

\* "if not found" of the utility
NotFound(det) == ~det.found

\* None (corners = <<>>, isNone) or the refined corners; subpix counts the
\* cornerSubPix calls made
detect_chessboard_corners(image, pattern_size) ==
    LET det == findChessboardCorners(image, pattern_size) IN
    IF NotFound(det)
    THEN [isNone |-> TRUE, corners |-> <<>>, subpix |-> 0]
    ELSE [isNone |-> FALSE, corners |-> cornerSubPix(image, det.corners), subpix |-> 1]

----------------------------------------------------------------------------
(* Requests, library-call counters and outcomes *)

NoCalls == [decode |-> 0, find |-> 0, subpix |-> 0,
            calibrateCamera |-> 0, projectPoints |-> 0, solvePnP |-> 0]

\* Python's None and a value, for a slot that holds either
PyNone == <<>>
Some(v) == <<v>>

NoBody == [keys |-> {}, success |-> FALSE, error |-> "", num_images |-> 0,
           image_size |-> <<>>, scored |-> 0, divisor |-> 0]

Pending == [kind |-> "pending", exc |-> "", body |-> NoBody,
            first |-> PyNone, second |-> PyNone]

\* an exception leaves the handler
Raise(e) == [Pending EXCEPT !.kind = "raise", !.exc = e]

\* do_command returns a mapping
ReturnBody(b) == [Pending EXCEPT !.kind = "return", !.body = b]

\* get_poses returns a pair
ReturnPair(a, b) == [Pending EXCEPT !.kind = "return", !.first = a, !.second = b]

\* {"success": False, "error": msg}
FailureBody(msg) == [NoBody EXCEPT !.keys = {"success", "error"}, !.error = msg]

ResultKeys == {"success", "rms_error", "reprojection_error", "num_images",
               "image_size", "camera_matrix", "distortion_coefficients"}

----------------------------------------------------------------------------
(* models/camera_calibration.py: CameraCalibration *)

NoLocals == [images |-> <<>>, idx |-> 1, object_points |-> <<>>,
             image_points |-> <<>>, image_size |-> PyNone,
             successful_detections |-> 0]

\* the locals as the loop is entered
InitLocals(base64_images) == [NoLocals EXCEPT !.images = base64_images]

\* a variant in which an exception of the decode ends the loop
LoopBodyBreaks(l, self, base64_img) ==
    LET d == decode_base64_image(base64_img)
        next == [l EXCEPT !.idx = @ + 1]
    IN  IF d.tag = "raise"
        THEN [locals |-> [l EXCEPT !.idx = Len(l.images) + 1],
              calls |-> [NoCalls EXCEPT !.decode = 1]]
        ELSE IF d.tag = "none"
        THEN [locals |-> next, calls |-> [NoCalls EXCEPT !.decode = 1]]
        ELSE LET image == d.image
                 sized == [next EXCEPT !.image_size =
                              IF @ = PyNone THEN <<image.w, image.h>> ELSE @]
                 corners == detect_chessboard_corners(image, self.pattern_size)
             IN  IF corners.isNone
                 THEN [locals |-> sized,
                       calls |-> [NoCalls EXCEPT !.decode = 1, !.find = 1]]
                 ELSE [locals |-> [sized EXCEPT
                           !.object_points =
                               Append(@, generate_object_points(self.pattern_size,
                                                                self.square_size)),
                           !.image_points = Append(@, corners.corners),
                           !.successful_detections = @ + 1],
                       calls |-> [NoCalls EXCEPT !.decode = 1, !.find = 1,
                                                 !.subpix = corners.subpix]]

\* a variant that appends the object points before it looks at the corners
LoopBodyAppendEarly(l, self, base64_img) ==
    LET d == decode_base64_image(base64_img)
        next == [l EXCEPT !.idx = @ + 1]
    IN  IF d.tag # "image" THEN [locals |-> next, calls |-> [NoCalls EXCEPT !.decode = 1]]
        ELSE LET corners == detect_chessboard_corners(d.image, self.pattern_size) IN
             [locals |-> [next EXCEPT
                 !.image_size = IF @ = PyNone THEN <<d.image.w, d.image.h>> ELSE @,
                 !.object_points = Append(@, generate_object_points(self.pattern_size,
                                                                    self.square_size)),
                 !.image_points = IF corners.isNone THEN @ ELSE Append(@, corners.corners),
                 !.successful_detections = IF corners.isNone THEN @ ELSE @ + 1],
              calls |-> [NoCalls EXCEPT !.decode = 1, !.find = 1, !.subpix = corners.subpix]]

\* one iteration of "for idx, base64_img in enumerate(base64_images)"; the
\* try/except around the body turns every exception into "continue"
LoopBody(l, self, base64_img) ==
    LET d == decode_base64_image(base64_img)
        next == [l EXCEPT !.idx = @ + 1]
    IN  IF d.tag = "raise"
        THEN [locals |-> next, calls |-> [NoCalls EXCEPT !.decode = 1]]
        ELSE IF d.tag = "none"
        THEN [locals |-> next, calls |-> [NoCalls EXCEPT !.decode = 1]]
        ELSE LET image == d.image
                 sized == [next EXCEPT !.image_size =
                              IF @ = PyNone THEN <<image.w, image.h>> ELSE @]
                 corners == detect_chessboard_corners(image, self.pattern_size)
             IN  IF corners.isNone
                 THEN [locals |-> sized,
                       calls |-> [NoCalls EXCEPT !.decode = 1, !.find = 1]]
                 ELSE [locals |-> [sized EXCEPT
                           !.object_points =
                               Append(@, generate_object_points(self.pattern_size,
                                                                self.square_size)),
                           !.image_points = Append(@, corners.corners),
                           !.successful_detections = @ + 1],
                       calls |-> [NoCalls EXCEPT !.decode = 1, !.find = 1,
                                                 !.subpix = corners.subpix]]

\* a variant with the threshold off by one
TooFewOffByOne(l) == l.successful_detections < 2

\* "if successful_detections < 3"
TooFew(l) == l.successful_detections < 3

\* a variant that scores one view per input image
ScoredViewsAllInputs(l) == Len(l.images)

\* the views the re-projection loop scores: range(len(object_points))
ScoredViews(l) == Len(l.object_points)

\* the result mapping built after a solve that did not raise
ResultBody(l) ==
    [keys |-> ResultKeys, success |-> TRUE, error |-> "",
     num_images |-> l.successful_detections,
     image_size |-> l.image_size,
     scored |-> ScoredViews(l),
     divisor |-> Len(l.object_points)]

\* _calibrate_camera_from_images after its loop, inside do_command's
\* try/except: the raise on too few images and an exception of
\* cv2.calibrateCamera both become {"success": False, "error": str(e)}
AfterLoop(l, solver_ok) ==
    IF TooFew(l)
    THEN [ret |-> ReturnBody(FailureBody("Only found chessboard pattern in too few images")),
          calls |-> NoCalls]
    ELSE IF ~solver_ok
    THEN [ret |-> ReturnBody(FailureBody("cv2.error")),
          calls |-> [NoCalls EXCEPT !.calibrateCamera = 1]]
    ELSE [ret |-> ReturnBody(ResultBody(l)),
          calls |-> [NoCalls EXCEPT !.calibrateCamera = 1,
                                    !.projectPoints = ScoredViews(l)]]

\* values a command can carry under "calibrate_camera", and under "images"
NoValue == [type |-> "none", items |-> <<>>]
Scalar == [type |-> "str", items |-> <<>>]
ListOf(items) == [type |-> "list", items |-> items]
DictWith(images) == [type |-> "dict", images |-> images]
NoParams == [type |-> "none", images |-> NoValue]
ScalarParams == [type |-> "str", images |-> NoValue]

\* a variant that takes every command for calibrate_camera
NamesCalibrateAlways(cmd) == TRUE

\* "calibrate_camera" in command
NamesCalibrate(cmd) == "calibrate_camera" \in cmd.keys

\* do_command up to the call of _calibrate_camera_from_images: an outcome,
\* or "enter" with the list to calibrate from
do_command_entry(cmd) ==
    IF NamesCalibrate(cmd)
    THEN LET params == IF cmd.params.type = "none" THEN DictWith(NoValue)
                       ELSE cmd.params
         IN  IF params.type # "dict"
             THEN [enter |-> FALSE, ret |-> Raise("AttributeError")]
             ELSE LET images == params.images IN
                  IF images.type = "none" \/ images.type # "list"
                  THEN [enter |-> FALSE,
                        ret |-> ReturnBody(FailureBody("Missing required 'images' parameter"))]
                  ELSE IF Len(images.items) = 0
                  THEN [enter |-> FALSE,
                        ret |-> ReturnBody(FailureBody("At least one image is required"))]
                  ELSE [enter |-> TRUE, ret |-> Pending]
    ELSE [enter |-> FALSE, ret |-> Raise("NotImplementedError")]

----------------------------------------------------------------------------
(* models/chessboard.py: Chessboard *)

JPEG == "image/jpeg"
PNG == "image/png"

\* the loop over cam_images[0]: viam_image is assigned, to the data of the
\* first image of the list, once for every JPEG met; with no JPEG the name
\* is never bound
SelectImage(images) ==
    IF \E i \in 1..Len(images) : images[i].mime = JPEG
    THEN [bound |-> TRUE, data |-> images[1].pic]
    ELSE [bound |-> FALSE, data |-> NoPic]

\* viam_to_pil_image and np.array: the picture the image data encodes
viam_to_pil_image(viam_image) == viam_image

\* a variant that goes on after a failed search
PoseNotFoundIgnored(det) == FALSE

\* "if not found" of get_poses
PoseNotFound(det) == ~det.found

\* a variant that walks the grid with rows and columns exchanged
pose_object_points_by_rows(pattern_size, square_size) ==
    LET n0 == pattern_size[2]
        n1 == pattern_size[1]
        zeros == [n \in 1..(n1 * n0) |-> <<0, 0, 0>>]
        grid == Reshape2(Transpose(mgrid(n0, n1), n0, n1), n1, n0)
        objp == [n \in DOMAIN zeros |-> <<grid[n][0], grid[n][1], zeros[n][3]>>]
    IN  Scale(objp, square_size)

\* the object points get_poses builds inline
pose_object_points(pattern_size, square_size) ==
    LET n0 == pattern_size[1]
        n1 == pattern_size[2]
        zeros == [n \in 1..(n1 * n0) |-> <<0, 0, 0>>]
        grid == Reshape2(Transpose(mgrid(n0, n1), n0, n1), n1, n0)
        objp == [n \in DOMAIN zeros |-> <<grid[n][0], grid[n][1], zeros[n][3]>>]
    IN  Scale(objp, square_size)

\* a variant that reports the solver's translation as it is
ToMillimetresUnscaled(tvec) == [k \in 1..3 |-> tvec[k]]

\* tvec.reshape(3, 1) * 1000
ToMillimetres(tvec) == [k \in 1..3 |-> tvec[k] * 1000]

PoseInFrame(reference_frame, t) ==
    [reference_frame |-> reference_frame, x |-> t[1], y |-> t[2], z |-> t[3]]

\* get_poses: its outcome, the calls it made and what it handed to solvePnP
get_poses(self, fr) ==
    LET sel == SelectImage(fr.images) IN
    IF ~sel.bound
    THEN [ret |-> Raise("UnboundLocalError"), calls |-> NoCalls,
          objp |-> <<>>, corners |-> <<>>]
    ELSE LET image == viam_to_pil_image(sel.data)
             det == findChessboardCorners(image, self.pattern_size)
         IN  IF PoseNotFound(det)
             THEN [ret |-> ReturnPair(Some("Could not find chessboard pattern in image"),
                                      PyNone),
                   calls |-> [NoCalls EXCEPT !.find = 1],
                   objp |-> <<>>, corners |-> <<>>]
             ELSE LET corners == cornerSubPix(image, det.corners)
                      objp == pose_object_points(self.pattern_size, self.square_size)
                      solved == [NoCalls EXCEPT !.find = 1, !.subpix = 1, !.solvePnP = 1]
                  IN  IF ~fr.pnp_ok
                      THEN [ret |-> ReturnPair(PyNone, PyNone), calls |-> solved,
                            objp |-> objp, corners |-> corners]
                      ELSE [ret |-> ReturnPair(Some("pose"),
                                       Some(PoseInFrame(self.camera,
                                                        ToMillimetres(fr.tvec)))),
                            calls |-> solved, objp |-> objp, corners |-> corners]

\* Chessboard.do_command
chessboard_do_command(cmd) == Raise("NotImplementedError")

----------------------------------------------------------------------------
(* Configuration *)

\* a variant of Chessboard.validate_config without the pattern_size check
cb_validate_config_unchecked_pattern(attrs) ==
    IF attrs.camera_name = PyNone THEN Raise("Exception")
    ELSE IF attrs.square_size_mm = PyNone THEN Raise("Exception")
    ELSE ReturnPair(<<attrs.camera_name[1]>>, <<>>)

\* validate_config: a required attribute that is None (<<>>) is an error;
\* otherwise the lists of required and of optional dependencies
cc_validate_config(attrs) ==
    IF attrs.pattern_size = PyNone THEN Raise("Exception")
    ELSE IF attrs.square_size_mm = PyNone THEN Raise("Exception")
    ELSE ReturnPair(<<>>, <<>>)

cb_validate_config(attrs) ==
    IF attrs.camera_name = PyNone THEN Raise("Exception")
    ELSE IF attrs.pattern_size = PyNone THEN Raise("Exception")
    ELSE IF attrs.square_size_mm = PyNone THEN Raise("Exception")
    ELSE ReturnPair(<<attrs.camera_name[1]>>, <<>>)

\* int(x) of a pattern attribute; the attributes of the model are whole numbers
PyInt(x) == x

\* reconfigure
cc_reconfigure(attrs) ==
    [pattern_size |-> [i \in DOMAIN attrs.pattern_size |-> PyInt(attrs.pattern_size[i])],
     square_size |-> attrs.square_size_mm[1]]

cb_reconfigure(attrs) ==
    [camera |-> attrs.camera_name[1],
     pattern_size |-> attrs.pattern_size,
     square_size |-> attrs.square_size_mm[1]]

\* configurations the machine can hand to the resources: two sound ones, one
\* whose numbers are present but describe no board, and three with a
\* required attribute missing
Attrs ==
    {[camera_name |-> Some("cam1"), pattern_size |-> <<3, 2>>, square_size_mm |-> Some(2)],
     [camera_name |-> Some("cam2"), pattern_size |-> <<2, 3>>, square_size_mm |-> Some(3)],
     [camera_name |-> Some("cam1"), pattern_size |-> <<1, 3>>, square_size_mm |-> Some(0)],
     [camera_name |-> PyNone, pattern_size |-> <<3, 2>>, square_size_mm |-> Some(2)],
     [camera_name |-> Some("cam1"), pattern_size |-> PyNone, square_size_mm |-> Some(2)],
     [camera_name |-> Some("cam2"), pattern_size |-> <<2, 3>>, square_size_mm |-> PyNone]}

NoAttrs == [camera_name |-> PyNone, pattern_size |-> PyNone, square_size_mm |-> PyNone]

----------------------------------------------------------------------------
(* Inputs *)

RECURSIVE SeqsUpTo(_, _)
SeqsUpTo(S, n) ==
    IF n = 0 THEN {<<>>}
    ELSE LET shorter == SeqsUpTo(S, n - 1) IN
         shorter \cup {Append(s, x) : s \in {t \in shorter : Len(t) = n - 1}, x \in S}

\* payloads of a calibration request: three pictures (one behind a data-URI
\* prefix), bytes that are no picture, and a text that is not base64
Payloads ==
    {StrPayload(<<"A", "A", "A", "A">>, PicA),
     StrPayload(<<"!", ",", "A", "B", "A", "=">>, PicB),
     StrPayload(<<"B", "B", "=", "=">>, PicC),
     StrPayload(<<"A", "B", "B", "A">>, NoPic),
     StrPayload(<<"A", "B", "B">>, NoPic)}

CommandsUpTo(n) ==
    {[keys |-> {"calibrate_camera"}, params |-> DictWith(ListOf(items))] :
        items \in SeqsUpTo(Payloads, n)}
    \cup {[keys |-> {"calibrate_camera"} \cup more, params |-> p] :
        more \in SUBSET {"other"},
        p \in {NoParams, ScalarParams, DictWith(NoValue), DictWith(Scalar)}}
    \cup {[keys |-> k, params |-> NoParams] : k \in {{}, {"other"}}}

\* commands sent to the calibration service and to the pose tracker
Commands == CommandsUpTo(MaxImages)
ChessboardCommands == CommandsUpTo(1)

NoCommand == [keys |-> {}, params |-> NoParams]

CamImages == [mime : {JPEG, PNG}, pic : {PicA, PicC}]

Frames == [images : SeqsUpTo(CamImages, MaxCamImages), pnp_ok : BOOLEAN,
           tvec : {<<1, 2, 3>>, <<0, -1, 2>>}]

NoFrame == [images |-> <<>>, pnp_ok |-> FALSE, tvec |-> <<0, 0, 0>>]

DecodeInputs ==
    {StrPayload(t, p) : t \in SeqsUpTo(Chars, MaxText), p \in {NoPic, PicA}}
    \cup {NonStrPayload}

\* the loop not run on any reordered list yet
NotReordered == [started |-> FALSE, given |-> NoLocals, permuted |-> NoLocals]

\* the names an entry of the watched directory can have
PassIds == {"p1", "p2", "p3"}

\* the watched directory before anything has made it
NoDirectory ==
    [exists |-> FALSE,
     entries |-> [name \in PassIds |-> [kind |-> "absent", files |-> {}]]]

\* CalibrationPassWatcher.__init__; no scan has begun
NoWatcher == [on_pass_complete |-> FALSE, known_passes |-> {},
              scanning |-> FALSE, listing |-> <<>>]

\* CalibrationPassWatcher.__init__: the stop flag clear, no thread made;
\* nobody has called start or stop
NoControl == [stop_flag |-> FALSE, threads |-> <<>>, caller |-> "idle",
              last |-> "none", before |-> "none"]

\* nobody has asked to mark a pass complete
NotMarked == [pass_id |-> "", via |-> "none", outcome |-> "none",
              was_dir |-> FALSE, unchanged |-> TRUE, kept |-> TRUE]

NotDecoded == [arg |-> NonStrPayload, out |-> [tag |-> "pending", exc |-> "", image |-> NoPic]]

----------------------------------------------------------------------------
(* The resources serving one request at a time *)

\* the utilities not called on their own, the watcher not started
Untouched ==
    /\ objp_calls = {}
    /\ dec = NotDecoded
    /\ inline_calls = {}
    /\ reordered = NotReordered
    /\ fs = NoDirectory
    /\ watcher = NoWatcher
    /\ reported = <<>>
    /\ ctl = NoControl
    /\ marked = NotMarked

Init ==
    /\ svc \in {cc_reconfigure(a) : a \in {b \in Attrs : cc_validate_config(b).kind = "return"}}
    /\ trk \in {cb_reconfigure(a) : a \in {b \in Attrs : cb_validate_config(b).kind = "return"}}
    /\ op = "none"
    /\ pc = "idle"
    /\ command = NoCommand
    /\ loc = NoLocals
    /\ frame = NoFrame
    /\ calls = NoCalls
    /\ ret = Pending
    /\ config = NoAttrs
    /\ Untouched

\* no request is being served
Idle == pc = "idle"

\* CameraCalibration.validate_config and, when it passed, reconfigure
Reconfigure ==
    /\ Idle
    /\ \E attrs \in Attrs :
        LET v == cc_validate_config(attrs) IN
        /\ ret' = v
        /\ svc' = IF v.kind = "raise" THEN svc ELSE cc_reconfigure(attrs)
        /\ config' = attrs
        /\ op' = "calibration.reconfigure"
        /\ pc' = "done"
        /\ UNCHANGED <<trk, command, loc, frame, calls, pureVars, watchVars>>

\* Chessboard.validate_config and, when it passed, reconfigure
ChessboardReconfigure ==
    /\ Idle
    /\ \E attrs \in Attrs :
        LET v == cb_validate_config(attrs) IN
        /\ ret' = v
        /\ trk' = IF v.kind = "raise" THEN trk ELSE cb_reconfigure(attrs)
        /\ config' = attrs
        /\ op' = "chessboard.reconfigure"
        /\ pc' = "done"
        /\ UNCHANGED <<svc, command, loc, frame, calls, pureVars, watchVars>>

\* CameraCalibration.do_command, up to the loop of _calibrate_camera_from_images
DoCommand ==
    /\ Idle
    /\ \E cmd \in Commands :
        /\ LET e == do_command_entry(cmd) IN
            /\ ret' = e.ret
            /\ pc' = IF e.enter THEN "loop" ELSE "done"
            /\ loc' = IF e.enter THEN InitLocals(cmd.params.images.items) ELSE NoLocals
        /\ op' = "calibration.do_command"
        /\ command' = cmd
        /\ frame' = NoFrame
        /\ calls' = NoCalls
        /\ UNCHANGED <<svc, trk, config, pureVars, watchVars>>

\* one iteration of the loop over the images
ProcessImage ==
    /\ pc = "loop"
    /\ loc.idx <= Len(loc.images)
    /\ LET r == LoopBody(loc, svc, loc.images[loc.idx]) IN
        /\ loc' = r.locals
        /\ calls' = [k \in DOMAIN calls |-> calls[k] + r.calls[k]]
    /\ UNCHANGED <<svc, trk, op, pc, command, frame, ret, config, pureVars, watchVars>>

\* a variant that leaves a trace of the run in the service's geometry
CalibrateTouchingGeometry(solver_ok) ==
    /\ pc = "loop"
    /\ loc.idx > Len(loc.images)
    /\ LET r == AfterLoop(loc, solver_ok) IN
        /\ ret' = r.ret
        /\ calls' = [k \in DOMAIN calls |-> calls[k] + r.calls[k]]
    /\ pc' = "done"
    /\ svc' = [svc EXCEPT !.square_size = loc.successful_detections]
    /\ UNCHANGED <<trk, op, command, loc, frame, config, pureVars, watchVars>>

\* the rest of _calibrate_camera_from_images and do_command's return
Calibrate(solver_ok) ==
    /\ pc = "loop"
    /\ loc.idx > Len(loc.images)
    /\ LET r == AfterLoop(loc, solver_ok) IN
        /\ ret' = r.ret
        /\ calls' = [k \in DOMAIN calls |-> calls[k] + r.calls[k]]
    /\ pc' = "done"
    /\ UNCHANGED <<svc, trk, op, command, loc, frame, config, pureVars, watchVars>>

\* Chessboard.get_poses
GetPoses ==
    /\ Idle
    /\ \E fr \in Frames :
        /\ LET r == get_poses(trk, fr) IN
            /\ ret' = r.ret
            /\ calls' = r.calls
            /\ loc' = IF r.calls.solvePnP = 0 THEN NoLocals
                      ELSE [NoLocals EXCEPT !.object_points = <<r.objp>>,
                                            !.image_points = <<r.corners>>]
        /\ op' = "chessboard.get_poses"
        /\ pc' = "done"
        /\ frame' = fr
        /\ command' = NoCommand
        /\ UNCHANGED <<svc, trk, config, pureVars, watchVars>>

\* Chessboard.do_command
ChessboardDoCommand ==
    /\ Idle
    /\ \E cmd \in ChessboardCommands :
        /\ ret' = chessboard_do_command(cmd)
        /\ op' = "chessboard.do_command"
        /\ pc' = "done"
        /\ command' = cmd
        /\ frame' = NoFrame
        /\ loc' = NoLocals
        /\ calls' = NoCalls
        /\ UNCHANGED <<svc, trk, config, pureVars, watchVars>>

\* the outcome has gone to the caller; the call's locals are discarded and
\* the resource waits for its next request
Respond ==
    /\ pc = "done"
    /\ pc' = "idle"
    /\ op' = "none"
    /\ command' = NoCommand /\ loc' = NoLocals /\ frame' = NoFrame
    /\ calls' = NoCalls /\ ret' = Pending
    /\ config' = NoAttrs
    /\ UNCHANGED <<svc, trk, pureVars, watchVars>>

Next ==
    \/ Reconfigure
    \/ ChessboardReconfigure
    \/ DoCommand
    \/ ProcessImage
    \/ \E solver_ok \in BOOLEAN : Calibrate(solver_ok)
    \/ GetPoses
    \/ ChessboardDoCommand
    \/ Respond

Spec == Init /\ [][Next]_vars

----------------------------------------------------------------------------
(* generate_object_points on its own *)

Geometries == {<<<<c, r>>, s>> : c \in 1..MaxCols, r \in 1..MaxRows, s \in 1..MaxSquare}

InitUtils ==
    /\ svc = cc_reconfigure(CHOOSE a \in Attrs : a.pattern_size = <<3, 2>> /\ a.camera_name # PyNone)
    /\ trk = cb_reconfigure(CHOOSE a \in Attrs : a.pattern_size = <<3, 2>> /\ a.camera_name # PyNone)
    /\ op = "none"
    /\ pc = "idle"
    /\ command = NoCommand
    /\ loc = NoLocals
    /\ frame = NoFrame
    /\ calls = NoCalls
    /\ ret = Pending
    /\ config = NoAttrs
    /\ Untouched

\* a call of generate_object_points
GenerateObjectPoints(pattern_size, square_size) ==
    /\ Cardinality(objp_calls) < MaxCalls
    /\ objp_calls' = objp_calls \cup
          {[pattern_size |-> pattern_size, square_size |-> square_size,
            points |-> generate_object_points(pattern_size, square_size)]}
    /\ UNCHANGED <<svc, trk, op, pc, command, loc, frame, calls, ret, config>>
    /\ UNCHANGED <<dec, inline_calls, reordered, watchVars>>

NextObj == \E g \in Geometries : GenerateObjectPoints(g[1], g[2])

SpecObj == InitUtils /\ [][NextObj]_vars

----------------------------------------------------------------------------
(* The object points of get_poses on their own *)

\* the object points of get_poses, built for a geometry
InlineObjectPoints(pattern_size, square_size) ==
    /\ Cardinality(inline_calls) < MaxCalls
    /\ inline_calls' = inline_calls \cup
          {[pattern_size |-> pattern_size, square_size |-> square_size,
            points |-> pose_object_points(pattern_size, square_size)]}
    /\ UNCHANGED <<svc, trk, op, pc, command, loc, frame, calls, ret, config>>
    /\ UNCHANGED <<objp_calls, dec, reordered, watchVars>>

NextInline == \E g \in Geometries : InlineObjectPoints(g[1], g[2])

SpecInline == InitUtils /\ [][NextInline]_vars

----------------------------------------------------------------------------
(* decode_base64_image on its own *)

Decode(base64_str) ==
    /\ dec' = [arg |-> base64_str, out |-> decode_base64_image(base64_str)]
    /\ UNCHANGED <<svc, trk, op, pc, command, loc, frame, calls, ret, config>>
    /\ UNCHANGED <<objp_calls, inline_calls, reordered, watchVars>>

NextDecode == \E p \in DecodeInputs : Decode(p)

SpecDecode == InitUtils /\ [][NextDecode]_vars

----------------------------------------------------------------------------
(* Vocabulary of the properties *)

\* the payload decodes and its corner grid is detected
Usable(payload, pattern_size) ==
    LET d == decode_base64_image(payload) IN
    d.tag = "image" /\ findChessboardCorners(d.image, pattern_size).found

UsableCount(images, pattern_size) ==
    Cardinality({i \in 1..Len(images) : Usable(images[i], pattern_size)})

\* the corner sets of the usable payloads, in input order
RECURSIVE UsableCorners(_, _)
UsableCorners(images, pattern_size) ==
    IF images = <<>> THEN <<>>
    ELSE LET rest == UsableCorners(Tail(images), pattern_size) IN
         IF Usable(Head(images), pattern_size)
         THEN <<findChessboardCorners(decode_base64_image(Head(images)).image,
                                      pattern_size).corners>> \o rest
         ELSE rest

\* a calibrate_camera command that carries a list of images
ListRequest ==
    /\ op = "calibration.do_command"
    /\ "calibrate_camera" \in command.keys
    /\ command.params.type = "dict"
    /\ command.params.images.type = "list"

GivenImages == command.params.images.items

IsFailureResponse ==
    /\ ret.kind = "return"
    /\ ret.body.keys = {"success", "error"}
    /\ ret.body.success = FALSE
    /\ ret.body.error # ""

IsSuccessResponse ==
    /\ ret.kind = "return"
    /\ "success" \in ret.body.keys
    /\ ret.body.success = TRUE

\* get_poses returned an error message and no pose
IsPoseError ==
    /\ ret.kind = "return"
    /\ ret.first # PyNone
    /\ ret.first # Some("pose")
    /\ ret.first # Some("")
    /\ ret.second = PyNone

\* get_poses returned the name "pose" and a pose
IsNamedPose ==
    /\ ret.kind = "return"
    /\ ret.first = Some("pose")
    /\ ret.second # PyNone

PosesDone == op = "chessboard.get_poses" /\ pc = "done"

\* the picture get_poses decoded, when it got past image selection
FetchedFrame == viam_to_pil_image(SelectImage(frame.images).data)

----------------------------------------------------------------------------
(* Properties *)

\* C1: a calibrate_camera command whose list holds fewer than 3 images that
\* decode and show the corner grid ends in a failure response (success false,
\* an error message, nothing else), and cv2.calibrateCamera is not called at
\* any point of the request.
C1_InsufficientData ==
    (ListRequest /\ UsableCount(GivenImages, svc.pattern_size) < 3) =>
        /\ calls.calibrateCamera = 0
        /\ calls.projectPoints = 0
        /\ pc = "done" => IsFailureResponse

C1_Witness ==
    /\ ListRequest /\ pc = "done"
    /\ Len(GivenImages) >= 3
    /\ UsableCount(GivenImages, svc.pattern_size) = 2
    /\ calls.decode = Len(GivenImages)

\* C2 as stated: whatever per-image failures the list holds, every image is
\* processed, and with at least 3 usable images the calibration succeeds with
\* num_images and the averaged views both equal to the number of usable images.
C2_SucceedsWheneverThreeUsable ==
    (ListRequest /\ pc = "done" /\ GivenImages # <<>>) =>
        /\ calls.decode = Len(GivenImages)
        /\ UsableCount(GivenImages, svc.pattern_size) >= 3 =>
            /\ IsSuccessResponse
            /\ ret.body.num_images = UsableCount(GivenImages, svc.pattern_size)
            /\ ret.body.scored = ret.body.num_images
            /\ ret.body.divisor = ret.body.num_images

\* C2 amended: whatever per-image failures the list holds, every image is
\* processed; with at least 3 usable images the solver is run and the only
\* failure left is the solver's own; a success reports num_images equal to
\* the number of usable images and averages the score over exactly that many
\* views.
C2_BatchNotAborted ==
    (ListRequest /\ pc = "done" /\ GivenImages # <<>>) =>
        /\ calls.decode = Len(GivenImages)
        /\ UsableCount(GivenImages, svc.pattern_size) >= 3 =>
            /\ calls.calibrateCamera = 1
            /\ IsSuccessResponse \/ (IsFailureResponse /\ ret.body.error = "cv2.error")
            /\ IsSuccessResponse =>
                /\ ret.body.num_images = UsableCount(GivenImages, svc.pattern_size)
                /\ ret.body.scored = ret.body.num_images
                /\ ret.body.divisor = ret.body.num_images
                /\ calls.projectPoints = ret.body.num_images

\* 5 inputs, 1 that raises in decoding, 4 usable: success
C2_Witness ==
    /\ ListRequest /\ pc = "done"
    /\ Len(GivenImages) = 5
    /\ UsableCount(GivenImages, svc.pattern_size) = 4
    /\ \E i \in 1..2 : decode_base64_image(GivenImages[i]).tag = "raise"
    /\ IsSuccessResponse
    /\ ret.body.num_images = 4

\* C3: a do_command call whose command has the key calibrate_camera returns a
\* mapping with a success flag, whatever is stored under the key.
C3_AlwaysStructured ==
    (op = "calibration.do_command" /\ pc = "done" /\ "calibrate_camera" \in command.keys) =>
        /\ ret.kind = "return"
        /\ "success" \in ret.body.keys

\* C4: what get_poses returns is the name "pose" with a pose, or an error
\* message with no pose.
C4_TwoShapes ==
    (PosesDone /\ ret.kind = "return") => (IsNamedPose \/ IsPoseError)

\* C5: when the frame get_poses decoded shows no checkerboard, it returns an
\* error message and no pose, and neither cornerSubPix nor solvePnP is called.
C5_NoBoardNoSolve ==
    (PosesDone /\ SelectImage(frame.images).bound
       /\ ~findChessboardCorners(FetchedFrame, trk.pattern_size).found) =>
        /\ IsPoseError
        /\ calls.find = 1
        /\ calls.subpix = 0
        /\ calls.solvePnP = 0

C5_Witness ==
    /\ PosesDone
    /\ SelectImage(frame.images).bound
    /\ FetchedFrame.board # trk.pattern_size
    /\ frame.pnp_ok
    /\ IsPoseError

\* C6: decode_base64_image of a malformed payload (a text that is not valid
\* base64, or valid base64 of bytes that are no picture) returns None, it
\* does not raise.
MalformedPayload(p) ==
    p.isstr /\ (b64decode(StripPrefix(p.text)).err \/ p.pic = NoPic)

C6_MalformedGivesNone ==
    (dec.out.tag # "pending" /\ MalformedPayload(dec.arg)) => dec.out.tag = "none"

\* C7: for cols >= 2, rows >= 2 and square_size > 0, generate_object_points
\* returns cols*rows points, all with Z = 0, the point at index r*cols + c
\* being (c*square_size, r*square_size, 0).
ValidGeometry(pattern_size, square_size) ==
    pattern_size[1] >= 2 /\ pattern_size[2] >= 2 /\ square_size > 0

C7_RowMajorGrid ==
    \A call \in objp_calls :
        LET cols == call.pattern_size[1]
            rows == call.pattern_size[2]
            s == call.square_size
        IN  ValidGeometry(call.pattern_size, s) =>
                /\ Len(call.points) = cols * rows
                /\ \A n \in 1..Len(call.points) : call.points[n][3] = 0
                /\ \A r \in 0..(rows - 1) : \A c \in 0..(cols - 1) :
                       call.points[r * cols + c + 1] = <<c * s, r * s, 0>>

C7_Witness ==
    \E call \in objp_calls :
        /\ call.pattern_size = <<3, 2>>
        /\ call.square_size = 2
        /\ Len(call.points) = 6

\* C8: for one valid pattern size, the points for square size 2*s are the
\* points for square size s doubled, coordinate by coordinate and index by
\* index; and for any two square sizes the count is the same and the points
\* at one index are the same grid position scaled.
C8_LinearInSquareSize ==
    \A a \in objp_calls : \A b \in objp_calls :
        (/\ a.pattern_size = b.pattern_size
         /\ ValidGeometry(a.pattern_size, a.square_size)
         /\ ValidGeometry(b.pattern_size, b.square_size)) =>
            /\ Len(a.points) = Len(b.points)
            /\ \A n \in 1..Len(a.points) : \A k \in 1..3 :
                   /\ a.points[n][k] * b.square_size = b.points[n][k] * a.square_size
                   /\ b.square_size = 2 * a.square_size =>
                          b.points[n][k] = 2 * a.points[n][k]

C8_Witness ==
    \E a \in objp_calls : \E b \in objp_calls :
        /\ a.pattern_size = <<3, 2>>
        /\ b.pattern_size = <<3, 2>>
        /\ a.square_size = 2
        /\ b.square_size = 4
        /\ b.points[6] = <<8, 4, 0>>

\* C9: while the calibrator runs, its two accumulators have the same length,
\* the number of successful detections so far; the k-th object-point set is
\* the grid of the configured geometry and the k-th corner set is that of the
\* k-th usable image, both of cols*rows entries.  What get_poses hands to
\* solvePnP is one object-point set and one corner set of cols*rows entries,
\* from the tracker's geometry and the frame it decoded.
C9_PairedCorrespondences ==
    /\ (op = "calibration.do_command" /\ pc \in {"loop", "done"} /\ ListRequest) =>
        LET seen == SubSeq(loc.images, 1, loc.idx - 1)
            n == svc.pattern_size[1] * svc.pattern_size[2]
        IN  /\ Len(loc.object_points) = loc.successful_detections
            /\ Len(loc.image_points) = loc.successful_detections
            /\ loc.successful_detections = UsableCount(seen, svc.pattern_size)
            /\ loc.image_points = UsableCorners(seen, svc.pattern_size)
            /\ \A k \in 1..Len(loc.object_points) :
                   /\ Len(loc.object_points[k]) = n
                   /\ k <= Len(loc.image_points) => Len(loc.image_points[k]) = n
                   /\ loc.object_points[k] =
                          generate_object_points(svc.pattern_size, svc.square_size)
    /\ (PosesDone /\ calls.solvePnP = 1) =>
        LET n == trk.pattern_size[1] * trk.pattern_size[2] IN
            /\ Len(loc.object_points) = 1
            /\ Len(loc.image_points) = 1
            /\ Len(loc.object_points[1]) = n
            /\ Len(loc.image_points[1]) = n
            /\ loc.image_points[1] =
                   findChessboardCorners(FetchedFrame, trk.pattern_size).corners

\* three detections accumulated after a decoded image without the grid
C9_Witness ==
    /\ op = "calibration.do_command" /\ pc = "loop"
    /\ loc.successful_detections = 3
    /\ loc.idx = 5
    /\ Len(loc.image_points[3]) = 6

\* C10: a CameraCalibration.do_command whose command lacks the key
\* calibrate_camera raises NotImplementedError without decoding, detecting or
\* calibrating; every Chessboard.do_command raises NotImplementedError.
C10_NotImplemented ==
    /\ (op = "calibration.do_command" /\ "calibrate_camera" \notin command.keys) =>
        /\ pc = "done"
        /\ ret = Raise("NotImplementedError")
        /\ calls = NoCalls
        /\ loc = NoLocals
    /\ op = "chessboard.do_command" =>
        /\ pc = "done"
        /\ ret = Raise("NotImplementedError")
        /\ calls = NoCalls

C10_Witness ==
    /\ op = "calibration.do_command"
    /\ command.keys = {"other"}
    /\ ret.kind = "raise"

----------------------------------------------------------------------------
(* Configuration *)

ConfiguredService == op = "calibration.reconfigure" /\ pc = "done"

ConfiguredTracker == op = "chessboard.reconfigure" /\ pc = "done"

\* C11: validate_config raises exactly when a required attribute is missing
\* (pattern_size or square_size_mm for the service; camera_name, pattern_size
\* or square_size_mm for the tracker); when it passes, the service declares no
\* dependency and the tracker exactly the configured camera name
C11_RequiredKeys ==
    /\ ConfiguredService =>
        /\ ret.kind = "raise" <=>
              (config.pattern_size = PyNone \/ config.square_size_mm = PyNone)
        /\ ret.kind # "raise" => ret = ReturnPair(<<>>, <<>>)
    /\ ConfiguredTracker =>
        /\ ret.kind = "raise" <=>
              \/ config.camera_name = PyNone
              \/ config.pattern_size = PyNone
              \/ config.square_size_mm = PyNone
        /\ ret.kind # "raise" => ret = ReturnPair(<<config.camera_name[1]>>, <<>>)

C11_Witness ==
    /\ ConfiguredTracker
    /\ config.camera_name # PyNone /\ config.square_size_mm # PyNone
    /\ config.pattern_size = PyNone
    /\ ret.kind = "raise"

\* C12: after a configuration that validate_config let through, the geometry
\* of the resource has at least two columns, two rows and a positive square
C12_GeometryValid ==
    /\ (ConfiguredService /\ ret.kind = "return") =>
        /\ Len(svc.pattern_size) = 2
        /\ svc.pattern_size[1] >= 2 /\ svc.pattern_size[2] >= 2
        /\ svc.square_size > 0
    /\ (ConfiguredTracker /\ ret.kind = "return") =>
        /\ Len(trk.pattern_size) = 2
        /\ trk.pattern_size[1] >= 2 /\ trk.pattern_size[2] >= 2
        /\ trk.square_size > 0

----------------------------------------------------------------------------
(* Image size of a calibration run *)

\* the pixel dimensions of the first payload, in input order, that decodes
\* and whose corner grid is detected
FirstUsableSize(images, pattern_size) ==
    LET i == CHOOSE i \in 1..Len(images) :
                 /\ Usable(images[i], pattern_size)
                 /\ \A j \in 1..(i - 1) : ~Usable(images[j], pattern_size)
        image == decode_base64_image(images[i]).image
    IN  <<image.w, image.h>>

\* C13: the image size handed to cv2.calibrateCamera and returned as
\* image_size is the size of the first image, in input order, that decoded
\* and had its corner grid detected
C13_SizeOfFirstProcessed ==
    (ListRequest /\ pc = "done" /\ calls.calibrateCamera = 1) =>
        /\ loc.image_size = FirstUsableSize(GivenImages, svc.pattern_size)
        /\ IsSuccessResponse =>
              ret.body.image_size = FirstUsableSize(GivenImages, svc.pattern_size)

----------------------------------------------------------------------------
(* The calibration loop on a list and on the same list reordered *)

\* the orders a list of n images can be given in
Orders(n) == {p \in [1..n -> 1..n] : \A i, j \in 1..n : p[i] = p[j] => i = j}

Reorder(images, p) == [i \in 1..Len(images) |-> images[p[i]]]

\* two requests are made with the same images, in two orders
StartReordered ==
    /\ ~reordered.started
    /\ \E images \in SeqsUpTo(Payloads, MaxReorder) :
       \E p \in Orders(Len(images)) :
            reordered' = [started |-> TRUE,
                          given |-> InitLocals(images),
                          permuted |-> InitLocals(Reorder(images, p))]
    /\ UNCHANGED <<svc, trk, op, pc, command, loc, frame, calls, ret, config>>
    /\ UNCHANGED <<objp_calls, dec, inline_calls, watchVars>>

\* one iteration of the loop over the images, in each of the two requests
\* that has not left its loop
ProcessReordered ==
    /\ reordered.started
    /\ \/ reordered.given.idx <= Len(reordered.given.images)
       \/ reordered.permuted.idx <= Len(reordered.permuted.images)
    /\ reordered' =
          [reordered EXCEPT
              !.given = IF @.idx <= Len(@.images)
                        THEN LoopBody(@, svc, @.images[@.idx]).locals ELSE @,
              !.permuted = IF @.idx <= Len(@.images)
                           THEN LoopBody(@, svc, @.images[@.idx]).locals ELSE @]
    /\ UNCHANGED <<svc, trk, op, pc, command, loc, frame, calls, ret, config>>
    /\ UNCHANGED <<objp_calls, dec, inline_calls, watchVars>>

NextOrder == StartReordered \/ ProcessReordered

SpecOrder == InitUtils /\ [][NextOrder]_vars

\* both loops have gone through their lists
BothLoopsDone ==
    /\ reordered.started
    /\ reordered.given.idx > Len(reordered.given.images)
    /\ reordered.permuted.idx > Len(reordered.permuted.images)

\* the correspondence pairs a loop has accumulated for the solver
Pairs(l) ==
    [i \in 1..Len(l.image_points) |-> <<l.object_points[i], l.image_points[i]>>]

\* two sequences hold the same elements the same number of times
SameCollection(s, t) ==
    /\ Len(s) = Len(t)
    /\ \A i \in 1..Len(s) :
          Cardinality({j \in 1..Len(s) : s[j] = s[i]})
              = Cardinality({j \in 1..Len(t) : t[j] = s[i]})

\* the pixel sizes of the payloads that decode
DecodedSizes(images) ==
    {<<decode_base64_image(images[i]).image.w, decode_base64_image(images[i]).image.h>> :
        i \in {j \in 1..Len(images) : decode_base64_image(images[j]).tag = "image"}}

\* C14 as stated: in every order the loop ends with the same success outcome,
\* the same num_images, the same image_size and the same collection of
\* correspondence pairs
C14_OrderIndependent ==
    BothLoopsDone =>
        /\ TooFew(reordered.given) = TooFew(reordered.permuted)
        /\ reordered.given.successful_detections
              = reordered.permuted.successful_detections
        /\ reordered.given.image_size = reordered.permuted.image_size
        /\ SameCollection(Pairs(reordered.given), Pairs(reordered.permuted))

\* C14, amended: in every order the loop ends with the same success outcome,
\* the same num_images and the same collection of correspondence pairs; the
\* image_size is that of the first image decoded in that order, so it is the
\* same in every order when the images that decode all have one size
C14_OrderIndependentUpToSize ==
    BothLoopsDone =>
        /\ TooFew(reordered.given) = TooFew(reordered.permuted)
        /\ reordered.given.successful_detections
              = reordered.permuted.successful_detections
        /\ SameCollection(Pairs(reordered.given), Pairs(reordered.permuted))
        /\ Cardinality(DecodedSizes(reordered.given.images)) <= 1 =>
              reordered.given.image_size = reordered.permuted.image_size
        /\ \A l \in {reordered.given, reordered.permuted} :
              l.image_size # PyNone => l.image_size \in DecodedSizes(l.images)

C14_Witness ==
    /\ BothLoopsDone
    /\ reordered.given.images # reordered.permuted.images
    /\ ~TooFew(reordered.given)
    /\ reordered.given.image_points # reordered.permuted.image_points
    /\ reordered.given.image_size # reordered.permuted.image_size

----------------------------------------------------------------------------
(* Requests and the configured state *)

\* C15: the configured state of a resource (pattern_size, square_size, camera)
\* changes only in a reconfigure of that resource; no step of a
\* calibrate_camera command or of a get_poses call, successful or not,
\* changes it
C15_RequestsAreStateless ==
    [][/\ svc' # svc => op' = "calibration.reconfigure"
       /\ trk' # trk => op' = "chessboard.reconfigure"
       /\ op' \in {"calibration.do_command", "chessboard.get_poses",
                   "chessboard.do_command"} => (svc' = svc /\ trk' = trk)]_vars

C15_Witness ==
    /\ ListRequest /\ pc = "done"
    /\ calls.calibrateCamera = 1
    /\ IsFailureResponse
    /\ svc.square_size = 3

----------------------------------------------------------------------------
(* The pose get_poses reports *)

\* C16: a successful get_poses returns the name "pose" with a pose whose
\* reference frame is the name of the configured camera and whose x, y, z are
\* the components of solvePnP's translation vector, in that order, times 1000
C16_PoseInCameraFrameInMillimetres ==
    (PosesDone /\ IsNamedPose) =>
        /\ ret.first = Some("pose")
        /\ ret.second[1].reference_frame = trk.camera
        /\ ret.second[1].x = 1000 * frame.tvec[1]
        /\ ret.second[1].y = 1000 * frame.tvec[2]
        /\ ret.second[1].z = 1000 * frame.tvec[3]

C16_Witness ==
    /\ PosesDone /\ IsNamedPose
    /\ calls.solvePnP = 1
    /\ frame.tvec = <<0, -1, 2>>
    /\ trk.camera = "cam2"
    /\ ret.second[1].y = -1000

----------------------------------------------------------------------------
(* The object points of get_poses and of generate_object_points *)

\* C17: for every pattern size and square size the object points get_poses
\* builds inline are those generate_object_points returns: as many, in the
\* same order, with the same coordinates
C17_SameObjectPoints ==
    \A r \in inline_calls :
        /\ Len(r.points) = Len(generate_object_points(r.pattern_size, r.square_size))
        /\ \A n \in 1..Len(r.points) :
              r.points[n] = generate_object_points(r.pattern_size, r.square_size)[n]

C17_Witness ==
    \E r \in inline_calls :
        /\ r.pattern_size = <<3, 2>> /\ r.square_size = 2
        /\ Len(r.points) = 6
        /\ r.points = generate_object_points(<<3, 2>>, 2)
        /\ r.points[2] = <<2, 0, 0>>

----------------------------------------------------------------------------
(* The image get_poses selects *)

\* the camera returned no JPEG image (or no image at all)
NoJpeg == \A i \in 1..Len(frame.images) : frame.images[i].mime # JPEG

\* C18: when none of the images the camera returned is a JPEG, get_poses
\* returns the message "Could not get latest image from camera" and no pose
C18_NoJpegIsAnErrorReturn ==
    (PosesDone /\ NoJpeg) =>
        ret = ReturnPair(Some("Could not get latest image from camera"), PyNone)

\* C19: when get_poses goes on past the selection, the data it decodes is
\* the data of an image of the camera whose MIME type is JPEG
C19_DecodesAJpeg ==
    (PosesDone /\ SelectImage(frame.images).bound) =>
        \E i \in 1..Len(frame.images) :
            /\ frame.images[i].mime = JPEG
            /\ frame.images[i].pic = SelectImage(frame.images).data

----------------------------------------------------------------------------
(* web-app/calibration_webapp_with_watcher.py: CalibrationPassWatcher *)

SENTINEL == ".complete"

IsPassDir(fsys, name) == fsys.entries[name].kind = "dir"

HasSentinel(fsys, name) == IsPassDir(fsys, name) /\ SENTINEL \in fsys.entries[name].files

\* a variant that does not look at _known_passes
CheckEntryForgetful(w, fsys, name) ==
    IF ~IsPassDir(fsys, name) THEN [known_passes |-> w.known_passes, call |-> FALSE]
    ELSE IF HasSentinel(fsys, name)
    THEN [known_passes |-> w.known_passes \cup {name}, call |-> w.on_pass_complete]
    ELSE [known_passes |-> w.known_passes, call |-> FALSE]

\* a variant that records every directory it has looked at as known
CheckEntryRemembersSkipped(w, fsys, name) ==
    IF ~IsPassDir(fsys, name) THEN [known_passes |-> w.known_passes, call |-> FALSE]
    ELSE IF name \in w.known_passes THEN [known_passes |-> w.known_passes, call |-> FALSE]
    ELSE [known_passes |-> w.known_passes \cup {name},
          call |-> HasSentinel(fsys, name) /\ w.on_pass_complete]

\* the body of "for pass_dir in self.watch_dir.iterdir()" for one entry:
\* the known passes after it and whether on_pass_complete is called
CheckEntry(w, fsys, name) ==
    IF ~IsPassDir(fsys, name) THEN [known_passes |-> w.known_passes, call |-> FALSE]
    ELSE IF name \in w.known_passes THEN [known_passes |-> w.known_passes, call |-> FALSE]
    ELSE IF HasSentinel(fsys, name)
    THEN [known_passes |-> w.known_passes \cup {name}, call |-> w.on_pass_complete]
    ELSE [known_passes |-> w.known_passes, call |-> FALSE]

\* the orders iterdir can list the entries of the directory in
Listings(fsys) ==
    LET present == {name \in PassIds : fsys.entries[name].kind # "absent"} IN
    {l \in SeqsUpTo(present, Cardinality(present)) :
        /\ Len(l) = Cardinality(present)
        /\ \A i, j \in 1..Len(l) : l[i] = l[j] => i = j}

\* CalibrationWebAppWithWatcher._on_pass_complete that does not raise: it
\* writes summary.json into the pass directory
WriteSummary(fsys, name) ==
    [fsys EXCEPT !.entries[name].files = @ \cup {"summary.json"}]

InitWatch ==
    /\ svc = cc_reconfigure(CHOOSE a \in Attrs : a.pattern_size = <<3, 2>> /\ a.camera_name # PyNone)
    /\ trk = cb_reconfigure(CHOOSE a \in Attrs : a.pattern_size = <<3, 2>> /\ a.camera_name # PyNone)
    /\ op = "none" /\ pc = "idle"
    /\ command = NoCommand /\ loc = NoLocals /\ frame = NoFrame
    /\ calls = NoCalls /\ ret = Pending /\ config = NoAttrs
    /\ objp_calls = {} /\ dec = NotDecoded /\ inline_calls = {}
    /\ reordered = NotReordered
    /\ fs = NoDirectory
    /\ watcher \in {[NoWatcher EXCEPT !.on_pass_complete = cb] : cb \in BOOLEAN}
    /\ reported = <<>>
    /\ ctl = NoControl
    /\ marked = NotMarked

\* base_dir.mkdir(parents=True, exist_ok=True) of the web app
MakeWatchDir ==
    /\ ~fs.exists
    /\ fs' = [fs EXCEPT !.exists = TRUE]
    /\ UNCHANGED <<watcher, reported>>

\* save_file: the pass directory is made, with its parents, and a file is
\* written into it; a plain file of that name makes mkdir raise
SaveFile(pass_id) ==
    /\ fs.entries[pass_id].kind # "file"
    /\ fs' = [fs EXCEPT !.exists = TRUE,
                        !.entries[pass_id] = [kind |-> "dir", files |-> @.files \cup {"data"}]]
    /\ UNCHANGED <<watcher, reported>>

\* something else makes an entry in the watched directory: an empty pass
\* directory or a plain file
ExternalEntry(name, kind) ==
    /\ fs.exists
    /\ fs.entries[name].kind = "absent"
    /\ fs' = [fs EXCEPT !.entries[name] = [kind |-> kind, files |-> {}]]
    /\ UNCHANGED <<watcher, reported>>

\* "pass_dir.exists()": true of a directory and of a plain file
PassPathExists(fsys, pass_id) == fsys.entries[pass_id].kind # "absent"

\* sentinel.write_text(...): under a directory the sentinel is written or
\* overwritten; under a plain file the open fails with NotADirectoryError
WriteSentinel(fsys, pass_id) ==
    IF IsPassDir(fsys, pass_id)
    THEN [fs |-> [fsys EXCEPT !.entries[pass_id].files = @ \cup {SENTINEL}],
          exc |-> ""]
    ELSE [fs |-> fsys, exc |-> "NotADirectoryError"]

\* mark_pass_complete: the directory after it, and "returned" or the
\* exception it raised
mark_pass_complete(fsys, pass_id) ==
    IF ~PassPathExists(fsys, pass_id)
    THEN [fs |-> fsys, outcome |-> "ValueError"]
    ELSE LET w == WriteSentinel(fsys, pass_id) IN
         [fs |-> w.fs, outcome |-> IF w.exc = "" THEN "returned" ELSE w.exc]

\* the complete_pass endpoint: the directory after it and the status of the
\* response; an exception of the view is answered by Flask with 500
complete_pass(fsys, pass_id) ==
    IF ~PassPathExists(fsys, pass_id)
    THEN [fs |-> fsys, outcome |-> "404"]
    ELSE LET w == WriteSentinel(fsys, pass_id) IN
         [fs |-> w.fs, outcome |-> IF w.exc = "" THEN "200" ELSE "500"]

\* mark_pass_complete and the complete_pass endpoint, for a pass directory
\* that exists: the sentinel is written
MarkPassComplete(pass_id) ==
    /\ IsPassDir(fs, pass_id)
    /\ fs' = mark_pass_complete(fs, pass_id).fs
    /\ UNCHANGED <<watcher, reported>>

\* _check_for_complete_passes up to the listing of the directory
ScanStart ==
    /\ ~watcher.scanning
    /\ fs.exists
    /\ \E l \in Listings(fs) :
          watcher' = [watcher EXCEPT !.scanning = TRUE, !.listing = l]
    /\ UNCHANGED <<fs, reported>>

\* a variant in which an exception of the callback leaves the scan
ScanEntryAbortsOnRaise ==
    /\ watcher.scanning
    /\ watcher.listing # <<>>
    /\ Len(reported) < MaxReports
    /\ LET name == Head(watcher.listing)
           r == CheckEntry(watcher, fs, name)
       IN  IF r.call
           THEN \E raises \in BOOLEAN :
                   /\ reported' = Append(reported,
                         [pass_id |-> name, sentinel |-> HasSentinel(fs, name),
                          raised |-> raises])
                   /\ fs' = IF raises THEN fs ELSE WriteSummary(fs, name)
                   /\ watcher' = [watcher EXCEPT
                         !.listing = IF raises THEN <<>> ELSE Tail(@),
                         !.scanning = ~raises,
                         !.known_passes = r.known_passes]
           ELSE /\ watcher' = [watcher EXCEPT !.listing = Tail(@),
                                              !.known_passes = r.known_passes]
                /\ UNCHANGED <<fs, reported>>

\* one iteration of the loop over the listing; the callback may raise, which
\* is caught and logged
ScanEntry ==
    /\ watcher.scanning
    /\ watcher.listing # <<>>
    /\ Len(reported) < MaxReports
    /\ LET name == Head(watcher.listing)
           r == CheckEntry(watcher, fs, name)
       IN  /\ watcher' = [watcher EXCEPT !.listing = Tail(@),
                                         !.known_passes = r.known_passes]
           /\ IF r.call
              THEN \E raises \in BOOLEAN :
                      /\ reported' = Append(reported,
                            [pass_id |-> name, sentinel |-> HasSentinel(fs, name),
                             raised |-> raises])
                      /\ fs' = IF raises THEN fs ELSE WriteSummary(fs, name)
              ELSE UNCHANGED <<fs, reported>>

\* the listing is exhausted: the scan returns and the loop waits
ScanEnd ==
    /\ watcher.scanning
    /\ watcher.listing = <<>>
    /\ watcher' = [watcher EXCEPT !.scanning = FALSE]
    /\ UNCHANGED <<fs, reported>>

NextWatch ==
    /\ \/ MakeWatchDir
       \/ \E pass_id \in PassIds : SaveFile(pass_id)
       \/ \E name \in PassIds, kind \in {"dir", "file"} : ExternalEntry(name, kind)
       \/ \E pass_id \in PassIds : MarkPassComplete(pass_id)
       \/ ScanStart
       \/ ScanEntry
       \/ ScanEnd
    /\ UNCHANGED <<svc, trk, op, pc, command, loc, frame, calls, ret, config, pureVars>>
    /\ UNCHANGED <<ctl, marked>>

SpecWatch == InitWatch /\ [][NextWatch]_vars

\* the pass ids on_pass_complete has been called with
ReportedIds == {reported[i].pass_id : i \in 1..Len(reported)}

\* C20: on_pass_complete is called at most once for a pass id, and only for
\* a pass directory whose .complete existed when the scan looked at it; a
\* pass directory without the sentinel is not reported and not in
\* _known_passes
C20_ReportedOnceAndOnlyComplete ==
    /\ \A i, j \in 1..Len(reported) :
          reported[i].pass_id = reported[j].pass_id => i = j
    /\ \A i \in 1..Len(reported) : reported[i].sentinel
    /\ \A name \in PassIds :
          ~HasSentinel(fs, name) =>
              /\ name \notin ReportedIds
              /\ name \notin watcher.known_passes
    /\ ReportedIds \subseteq watcher.known_passes

C20_Witness ==
    /\ Len(reported) = 2
    /\ \E i \in 1..2 : reported[i].raised
    /\ ~watcher.scanning
    /\ \E name \in PassIds : IsPassDir(fs, name) /\ ~HasSentinel(fs, name)
    /\ \E name \in PassIds : IsPassDir(fs, name) /\ "summary.json" \in fs.entries[name].files

----------------------------------------------------------------------------
(* The watch loop under fair scheduling *)

\* the resources and the utilities take no part in a step of the watcher
ResourcesIdle ==
    /\ UNCHANGED <<svc, trk, op, pc, command, loc, frame, calls, ret, config, pureVars>>
    /\ UNCHANGED <<ctl, marked>>

\* _watch_loop while the stop flag is clear: the thread is scheduled, the
\* wait of check_interval ends and a callback returns or raises, so no step
\* of the loop stays enabled for ever without being taken
SpecWatchFair ==
    /\ SpecWatch
    /\ WF_vars(ScanStart /\ ResourcesIdle)
    /\ WF_vars(ScanEntry /\ ResourcesIdle)
    /\ WF_vars(ScanEnd /\ ResourcesIdle)

\* C21: while the watch loop runs, a pass directory that has its .complete
\* sentinel is eventually reported through on_pass_complete, also when the
\* sentinel was written after a scan had passed the directory by
C21_CompleteIsEventuallyReported ==
    \A name \in PassIds :
        (HasSentinel(fs, name) /\ watcher.on_pass_complete) ~> (name \in ReportedIds)

\* the sentinel of a pass was written after the scan in progress had passed it by
C21_Witness ==
    \E name \in PassIds :
        /\ watcher.on_pass_complete
        /\ watcher.scanning
        /\ HasSentinel(fs, name)
        /\ name \notin watcher.known_passes
        /\ \A i \in 1..Len(watcher.listing) : watcher.listing[i] # name
        /\ ReportedIds # {}

----------------------------------------------------------------------------
(* A callback that raises *)

\* C22: a step in which on_pass_complete raises leaves the scan where a
\* step without a call leaves it, at the next entry of the listing, with the
\* pass recorded in _known_passes and the directory untouched; and no step
\* calls on_pass_complete for a pass it was called for before, whether that
\* call raised or not
C22_RaiseDoesNotEndTheScan ==
    [][Len(reported') = Len(reported) + 1 =>
          LET call == reported'[Len(reported')] IN
          /\ call.pass_id \notin ReportedIds
          /\ call.pass_id \in watcher'.known_passes
          /\ watcher'.scanning
          /\ watcher'.listing = Tail(watcher.listing)
          /\ call.raised => fs' = fs]_vars

C22_Witness ==
    /\ Len(reported) = 2
    /\ reported[1].raised
    /\ ~reported[2].raised
    /\ watcher.scanning
    /\ watcher.listing # <<>>
    /\ reported[1].pass_id \in watcher.known_passes

----------------------------------------------------------------------------
(* CalibrationPassWatcher: start, stop and the watch-loop threads *)

\* Thread.is_alive() of the i-th thread made
IsAlive(c, i) == c.threads[i] # "dead"

\* "self._watcher_thread and self._watcher_thread.is_alive()": the thread
\* start() made last
WatcherThreadAlive(c) == c.threads # <<>> /\ IsAlive(c, Len(c.threads))

\* a call of start or stop has returned
CallReturned(c, call) == [c EXCEPT !.caller = "idle", !.last = call, !.before = c.last]

\* start(): with a live thread it warns and returns; otherwise it clears the
\* stop flag and starts a new thread on _watch_loop
WatcherStart ==
    /\ ctl.caller = "idle"
    /\ IF WatcherThreadAlive(ctl)
       THEN ctl' = CallReturned(ctl, "start")
       ELSE /\ Len(ctl.threads) < MaxThreads
            /\ ctl' = [CallReturned(ctl, "start") EXCEPT
                          !.stop_flag = FALSE,
                          !.threads = Append(@, "test")]

\* stop() up to the join: the stop flag is set; without a thread it returns
WatcherStop ==
    /\ ctl.caller = "idle"
    /\ IF ctl.threads = <<>>
       THEN ctl' = [CallReturned(ctl, "stop") EXCEPT !.stop_flag = TRUE]
       ELSE ctl' = [ctl EXCEPT !.stop_flag = TRUE, !.caller = "joining"]

\* join(timeout=5) returns: the thread has ended, or five seconds have
\* passed while it was still in a scan
WatcherStopReturns ==
    /\ ctl.caller = "joining"
    /\ \/ ~WatcherThreadAlive(ctl)
       \/ ctl.threads[Len(ctl.threads)] = "scan"
    /\ ctl' = CallReturned(ctl, "stop")

\* _watch_loop: "while not self._stop_flag.is_set()"
WatchLoopTest(i) ==
    /\ ctl.threads[i] = "test"
    /\ ctl' = [ctl EXCEPT !.threads[i] = IF ctl.stop_flag THEN "dead" ELSE "scan"]

\* _watch_loop: _check_for_complete_passes has returned or raised
WatchLoopScanned(i) ==
    /\ ctl.threads[i] = "scan"
    /\ ctl' = [ctl EXCEPT !.threads[i] = "wait"]

\* _watch_loop: _stop_flag.wait(check_interval) has returned
WatchLoopWaited(i) ==
    /\ ctl.threads[i] = "wait"
    /\ ctl' = [ctl EXCEPT !.threads[i] = "test"]

NextThreads ==
    /\ \/ WatcherStart
       \/ WatcherStop
       \/ WatcherStopReturns
       \/ \E i \in 1..Len(ctl.threads) : WatchLoopTest(i)
       \/ \E i \in 1..Len(ctl.threads) : WatchLoopScanned(i)
       \/ \E i \in 1..Len(ctl.threads) : WatchLoopWaited(i)
    /\ UNCHANGED <<svc, trk, op, pc, command, loc, frame, calls, ret, config, pureVars>>
    /\ UNCHANGED <<fs, watcher, reported, marked>>

SpecThreads == InitWatch /\ [][NextThreads]_vars

LiveLoops(c) == {i \in 1..Len(c.threads) : IsAlive(c, i)}

\* C23: at most one watch-loop thread is alive at a time, and once a start
\* call has returned after a stop call that returned, a watch loop is alive
\* and the stop flag is clear
C23_OneLoopAndRestart ==
    /\ Cardinality(LiveLoops(ctl)) <= 1
    /\ (ctl.caller = "idle" /\ ctl.last = "start" /\ ctl.before = "stop") =>
          /\ LiveLoops(ctl) # {}
          /\ ~ctl.stop_flag

----------------------------------------------------------------------------
(* Marking a pass complete *)

\* what a request to mark a pass complete found and did
Observed(fsys, pass_id, via, r) ==
    [pass_id |-> pass_id, via |-> via, outcome |-> r.outcome,
     was_dir |-> IsPassDir(fsys, pass_id),
     unchanged |-> r.fs = fsys,
     kept |-> \A name \in PassIds :
                 /\ r.fs.entries[name].kind = fsys.entries[name].kind
                 /\ r.fs.entries[name].files \ {SENTINEL}
                       = fsys.entries[name].files \ {SENTINEL}]

\* a call of mark_pass_complete, for any pass id
MarkPassCompleteCalled(pass_id) ==
    LET r == mark_pass_complete(fs, pass_id) IN
    /\ fs' = r.fs
    /\ marked' = Observed(fs, pass_id, "method", r)

\* a POST to /api/complete_pass/<pass_id>, for any pass id
CompletePassPosted(pass_id) ==
    LET r == complete_pass(fs, pass_id) IN
    /\ fs' = r.fs
    /\ marked' = Observed(fs, pass_id, "endpoint", r)

NextMark ==
    /\ \/ MakeWatchDir /\ UNCHANGED marked
       \/ \E pass_id \in PassIds : SaveFile(pass_id) /\ UNCHANGED marked
       \/ \E name \in PassIds, kind \in {"dir", "file"} :
             ExternalEntry(name, kind) /\ UNCHANGED marked
       \/ \E pass_id \in PassIds :
             MarkPassCompleteCalled(pass_id) /\ UNCHANGED <<watcher, reported>>
       \/ \E pass_id \in PassIds :
             CompletePassPosted(pass_id) /\ UNCHANGED <<watcher, reported>>
    /\ UNCHANGED <<svc, trk, op, pc, command, loc, frame, calls, ret, config, pureVars>>
    /\ UNCHANGED ctl

SpecMark == InitWatch /\ [][NextMark]_vars

\* C24: a request to mark a pass whose directory does not exist fails,
\* mark_pass_complete with an error and the endpoint with 404, and changes
\* nothing in the watched directory; for a pass directory that exists the
\* sentinel is there afterwards and every other file is as it was
C24_MissingPassFailsCleanly ==
    marked.via # "none" =>
        IF ~marked.was_dir
        THEN /\ marked.via = "method" => marked.outcome # "returned"
             /\ marked.via = "endpoint" => marked.outcome = "404"
             /\ marked.unchanged
        ELSE /\ marked.outcome \in {"returned", "200"}
             /\ HasSentinel(fs, marked.pass_id)
             /\ marked.kept

====
